---- MODULE Spec2Model ----
(***************************************************************************)
(* The Windows backend of swsurface (src/src/windows.rs): one SurfaceImpl, *)
(* its RefCell<Buffer>, its Cell<ImageInfo>, the lock handle a caller may  *)
(* hold, and the GDI calls present_image makes.                            *)
(*                                                                         *)
(* Integer widths are scaled down: c_int / i32 / u32 have CIntBits bits    *)
(* and usize has CIntBits or 2 * CIntBits bits (the 32-bit and the 64-bit  *)
(* Windows targets), so that the asserts and the overflow checks of        *)
(* update_surface are decided by enumeration.  Reached within the bounds:  *)
(* every assert, the checked_mul overflow of the stride (narrow usize),    *)
(* the overflow of the size, the c_int ceiling of stride / 4 (wide usize,  *)
(* alignment >= 8), the borrow failure and the allocation failure.  The    *)
(* None of align_up is modelled but needs a narrow usize and a width of    *)
(* 2^CIntBits / 4 - 1 with alignment 8, which CIntBits = 3 has no room for.*)
(*                                                                         *)
(* A panic is an operation that ends with last.result = "panic"; the       *)
(* surface stays usable afterwards (the caller may catch the unwind).      *)
(*                                                                         *)
(* Rust indexes extent from 0, TLA+ tuples from 1: extent[1] below is the  *)
(* code's extent[0] (width), extent[2] is the code's extent[1] (height).   *)
(* Byte offsets into the buffer are 1-based for the same reason.           *)
(***************************************************************************)
EXTENDS Integers, Sequences, FiniteSets, TLC

VARIABLES
    scanline_align,  \* SurfaceImpl::scanline_align (the Align's value)
    usize_bits,      \* width of usize on the build target
    image,           \* the Buffer inside SurfaceImpl::image: its bytes
    borrow,          \* the borrow flag of the RefCell SurfaceImpl::image
    image_info,      \* SurfaceImpl::image_info
    handles,         \* number of live handles returned by lock_image
    gdi,             \* the platform calls made by the last operation
    last,            \* the last operation called, its arguments and outcome
    written          \* offset -> byte last written through a handle since
                     \* the last update_surface / present_image call

vars == <<scanline_align, usize_bits, image, borrow, image_info, handles,
          gdi, last, written>>

----------------------------------------------------------------------------
(* Bounds of the model *)

\* Width in bits of c_int, i32 and u32 in the model.
CIntBits == 3

----------------------------------------------------------------------------
(* Machine integers *)

RECURSIVE Pow2(_)
Pow2(n) == IF n = 0 THEN 1 ELSE 2 * Pow2(n - 1)

\* <i32>::max_value()
I32Max == Pow2(CIntBits - 1) - 1

\* u32::MAX
U32Max == Pow2(CIntBits) - 1

\* usize::MAX on the build target
UsizeMax == Pow2(usize_bits) - 1

\* Option::None
None == -1

\* usize::checked_mul
checked_mul(x, y) == IF x * y > UsizeMax THEN None ELSE x * y

\* u32 -> usize, usize -> c_int TryInto: None when the value does not fit
try_into(x, max) == IF x > max THEN None ELSE x

\* `x as i32` : wraps modulo 2^CIntBits into the signed range
as_i32(x) ==
    LET m == x % Pow2(CIntBits)
    IN  IF m > I32Max THEN m - Pow2(CIntBits) ELSE m

\* Align::align_up: the smallest multiple of the alignment that is >= x,
\* None when it does not fit usize
align_up(align, x) ==
    IF x + (align - 1) > UsizeMax
    THEN None
    ELSE ((x + (align - 1)) \div align) * align

\* The pixel formats; supported_formats() yields Argb8888 only.
Formats == {"Argb8888", "Xrgb8888"}

supported_formats == {"Argb8888"}

\* The byte values callers write and a fresh allocation may hold.
Bytes == {0, 255}

\* The values Align::new accepts on the build target: powers of two in usize.
Aligns(bits) == {Pow2(k) : k \in 0..(bits - 1)}

\* The extent components callers pass: zero, one, the c_int ceiling, u32::MAX.
ExtentVals == {0, 1, I32Max, U32Max}

\* The image indices callers pass: the only valid one and an invalid one.
Indices == {0, 1}

\* ImageInfo::default()
DefaultImageInfo(format) == [extent |-> <<0, 0>>, stride |-> 0, format |-> format]

----------------------------------------------------------------------------
(* The record of the last call *)

Call(op, i, extent, format) ==
    [op |-> op, i |-> i, extent |-> extent, format |-> format]

\* after_drop: the operation called right before this one released the handle.
\* repeat: an update_surface call whose arguments are those of the
\* successful update_surface call right before it.
Outcome(c, result, msg) ==
    [op |-> c.op, i |-> c.i, extent |-> c.extent, format |-> c.format,
     result |-> result, msg |-> msg, after_drop |-> last.op = "drop_handle",
     repeat |-> /\ c.op = "update_surface"
                /\ last.op = "update_surface" /\ last.result = "ok"
                /\ c.extent = image_info.extent /\ c.format = image_info.format]

NoWrites == [o \in {} |-> 0]

----------------------------------------------------------------------------
(* SurfaceImpl::new *)

Init ==
    /\ usize_bits \in {CIntBits, 2 * CIntBits}
    /\ scanline_align \in Aligns(usize_bits)
    /\ \E b \in Bytes : image = <<b>>
    /\ borrow = "unused"
    /\ \E f \in Formats : image_info = DefaultImageInfo(f)
    /\ handles = 0
    /\ gdi = <<>>
    /\ last = [op |-> "new", i |-> 0, extent |-> <<0, 0>>, format |-> "Argb8888",
               result |-> "ok", msg |-> "", after_drop |-> FALSE, repeat |-> FALSE]
    /\ written = NoWrites

----------------------------------------------------------------------------
(* RefCell<Buffer> *)

\* RefCell::try_borrow_mut / try_borrow succeed on a cell nobody writes to
CanBorrow(flag) == flag = "unused"

\* Buffer::resize: the region has new_size bytes afterwards.  Its contents are
\* unspecified: every byte holds the arbitrary value fill.  No property below
\* reads a byte of a resized buffer before a caller has written it.
Resized(old, new_size, fill) == [o \in 1..new_size |-> fill]

----------------------------------------------------------------------------
(* SurfaceImpl::update_surface *)

\* Mutant of ComputeStride: the stride is not rounded up to the alignment.
ComputeStride_NoAlign(width) == checked_mul(width, 4)

\* lines 49-52: the row stride in bytes, None on overflow
ComputeStride(width) ==
    LET x == checked_mul(width, 4)
    IN  IF x = None THEN None ELSE align_up(scanline_align, x)

\* Mutant of ComputeSize: the stride is multiplied by the width.
ComputeSize_ByWidth(stride, extent) == checked_mul(stride, extent[1])

\* line 54: the buffer size in bytes, None on overflow
ComputeSize(stride, extent) == checked_mul(stride, extent[2])

\* Mutant of StridePixels: the conversion to c_int is not checked.
StridePixels_Unchecked(stride) == stride \div 4

\* Mutant of StridePixels: the conversion is to u32 instead of c_int.
StridePixels_U32(stride) == try_into(stride \div 4, U32Max)

\* line 58: stride / 4 as a c_int, None when it does not fit
StridePixels(stride) == try_into(stride \div 4, I32Max)

\* Mutant of Commit: the new ImageInfo is stored before the buffer is
\* borrowed and resized.
Commit_InfoFirst(c, stride, size) ==
    /\ image_info' = [extent |-> c.extent, stride |-> stride, format |-> c.format]
    /\ borrow' = borrow
    /\ IF ~CanBorrow(borrow)
       THEN /\ last' = Outcome(c, "panic", "already borrowed")
            /\ image' = image
       ELSE \/ /\ last' = Outcome(c, "panic", "allocation failed")
               /\ image' = image
            \/ \E fill \in Bytes :
               /\ image' = Resized(image, size, fill)
               /\ last' = Outcome(c, "ok", "")

\* Mutant of Commit: the stored format is not replaced.
Commit_KeepsFormat(c, stride, size) ==
    IF ~CanBorrow(borrow)
    THEN /\ last' = Outcome(c, "panic", "already borrowed")
         /\ UNCHANGED <<image, image_info, borrow>>
    ELSE \/ /\ last' = Outcome(c, "panic", "allocation failed")
            /\ UNCHANGED <<image, image_info, borrow>>
         \/ \E fill \in Bytes :
            /\ image' = Resized(image, size, fill)
            /\ image_info' = [extent |-> c.extent, stride |-> stride,
                              format |-> image_info.format]
            /\ borrow' = borrow
            /\ last' = Outcome(c, "ok", "")

\* Mutant of Commit: the buffer grows by size instead of being set to it.
Commit_Grows(c, stride, size) ==
    IF ~CanBorrow(borrow)
    THEN /\ last' = Outcome(c, "panic", "already borrowed")
         /\ UNCHANGED <<image, image_info, borrow>>
    ELSE \/ /\ last' = Outcome(c, "panic", "allocation failed")
            /\ UNCHANGED <<image, image_info, borrow>>
         \/ \E fill \in Bytes :
            /\ image' = Resized(image, Len(image) + size, fill)
            /\ image_info' = [extent |-> c.extent, stride |-> stride,
                              format |-> c.format]
            /\ borrow' = borrow
            /\ last' = Outcome(c, "ok", "")

\* Mutant of Commit: the RefMut is leaked when the resize fails, so the
\* buffer stays borrowed.
Commit_HoldsBorrow(c, stride, size) ==
    IF ~CanBorrow(borrow)
    THEN /\ last' = Outcome(c, "panic", "already borrowed")
         /\ UNCHANGED <<image, image_info, borrow>>
    ELSE \/ /\ last' = Outcome(c, "panic", "allocation failed")
            /\ borrow' = "writing"
            /\ UNCHANGED <<image, image_info>>
         \/ \E fill \in Bytes :
            /\ image' = Resized(image, size, fill)
            /\ image_info' = [extent |-> c.extent, stride |-> stride,
                              format |-> c.format]
            /\ borrow' = borrow
            /\ last' = Outcome(c, "ok", "")

\* Mutant of Commit: the buffer is resized without borrowing the RefCell.
Commit_Unchecked(c, stride, size) ==
    \/ /\ last' = Outcome(c, "panic", "allocation failed")
       /\ UNCHANGED <<image, image_info, borrow>>
    \/ \E fill \in Bytes :
       /\ image' = Resized(image, size, fill)
       /\ image_info' = [extent |-> c.extent, stride |-> stride,
                         format |-> c.format]
       /\ borrow' = borrow
       /\ last' = Outcome(c, "ok", "")

\* lines 60-67: borrow the buffer, resize it, store the new ImageInfo.
\* The RefMut is a local: it is dropped on return and on unwinding, so the
\* borrow flag is what it was before the call.
Commit(c, stride, size) ==
    IF ~CanBorrow(borrow)
    THEN /\ last' = Outcome(c, "panic", "already borrowed")
         /\ UNCHANGED <<image, image_info, borrow>>
    ELSE \/ /\ last' = Outcome(c, "panic", "allocation failed")
            /\ UNCHANGED <<image, image_info, borrow>>
         \/ \E fill \in Bytes :
            /\ image' = Resized(image, size, fill)
            /\ image_info' = [extent |-> c.extent, stride |-> stride,
                              format |-> c.format]
            /\ borrow' = borrow
            /\ last' = Outcome(c, "ok", "")

\* Mutant of update_surface: the four asserts on the extent are missing.
update_surface_NoAsserts(extent, format) ==
    LET c == Call("update_surface", 0, extent, format)
        stride == ComputeStride(extent[1])
        size == IF stride = None THEN None ELSE ComputeSize(stride, extent)
        Panic(msg) == /\ last' = Outcome(c, "panic", msg)
                      /\ UNCHANGED <<image, image_info, borrow>>
    IN  /\ gdi' = <<>>
        /\ written' = NoWrites
        /\ UNCHANGED <<scanline_align, usize_bits, handles>>
        /\ IF try_into(extent[1], UsizeMax) = None THEN Panic("overflow: extent[0]")
           ELSE IF try_into(extent[2], UsizeMax) = None THEN Panic("overflow: extent[1]")
           ELSE IF stride = None THEN Panic("overflow: stride")
           ELSE IF size = None THEN Panic("overflow: size")
           ELSE IF StridePixels(stride) = None THEN Panic("overflow: stride_pixels")
           ELSE Commit(c, stride, size)

update_surface(extent, format) ==
    LET c == Call("update_surface", 0, extent, format)
        stride == ComputeStride(extent[1])
        size == IF stride = None THEN None ELSE ComputeSize(stride, extent)
        Panic(msg) == /\ last' = Outcome(c, "panic", msg)
                      /\ UNCHANGED <<image, image_info, borrow>>
    IN  /\ gdi' = <<>>
        /\ written' = NoWrites
        /\ UNCHANGED <<scanline_align, usize_bits, handles>>
        /\ IF extent[1] = 0 THEN Panic("assert_ne extent[0]")
           ELSE IF extent[2] = 0 THEN Panic("assert_ne extent[1]")
           ELSE IF extent[1] > I32Max THEN Panic("assert extent[0] <= i32::MAX")
           ELSE IF extent[2] > I32Max THEN Panic("assert extent[1] <= i32::MAX")
           ELSE IF try_into(extent[1], UsizeMax) = None THEN Panic("overflow: extent[0]")
           ELSE IF try_into(extent[2], UsizeMax) = None THEN Panic("overflow: extent[1]")
           ELSE IF stride = None THEN Panic("overflow: stride")
           ELSE IF size = None THEN Panic("overflow: size")
           ELSE IF StridePixels(stride) = None THEN Panic("overflow: stride_pixels")
           ELSE Commit(c, stride, size)

----------------------------------------------------------------------------
(* The queries of SurfaceImpl: they read nothing but image_info *)

\* Option::Some
Some(v) == [some |-> TRUE, value |-> v]

\* Option::None as the result of a query
NoImage == [some |-> FALSE, value |-> 0]

\* SurfaceImpl::image_info
image_info_get == image_info

\* Mutant of num_images: a second image is reported once the surface has
\* been sized.
num_images_Two == IF image_info.stride > 0 THEN 2 ELSE 1

\* SurfaceImpl::num_images
num_images == 1

\* SurfaceImpl::does_preserve_image
does_preserve_image == TRUE

\* Mutant of poll_next_image: no image is ready while a handle is alive.
poll_next_image_Busy == IF handles > 0 THEN NoImage ELSE Some(0)

\* SurfaceImpl::poll_next_image
poll_next_image == Some(0)

----------------------------------------------------------------------------
(* SurfaceImpl::lock_image and the handle it returns *)

\* Mutant of lock_image: the handle is handed out without the borrow check.
lock_image_Unchecked(i) ==
    LET c == Call("lock_image", i, <<0, 0>>, "Argb8888")
    IN  /\ gdi' = <<>>
        /\ UNCHANGED <<scanline_align, usize_bits, image, image_info, written>>
        /\ IF i # 0
           THEN /\ last' = Outcome(c, "panic", "assert_eq index")
                /\ UNCHANGED <<borrow, handles>>
           ELSE /\ borrow' = "writing"
                /\ handles' = handles + 1
                /\ last' = Outcome(c, "ok", "")

\* Mutant of lock_image: the index is not asserted to be 0.
lock_image_AnyIndex(i) ==
    LET c == Call("lock_image", i, <<0, 0>>, "Argb8888")
    IN  /\ gdi' = <<>>
        /\ UNCHANGED <<scanline_align, usize_bits, image, image_info, written>>
        /\ IF ~CanBorrow(borrow)
           THEN /\ last' = Outcome(c, "panic", "already borrowed")
                /\ UNCHANGED <<borrow, handles>>
           ELSE /\ borrow' = "writing"
                /\ handles' = handles + 1
                /\ last' = Outcome(c, "ok", "")

lock_image(i) ==
    LET c == Call("lock_image", i, <<0, 0>>, "Argb8888")
    IN  /\ gdi' = <<>>
        /\ UNCHANGED <<scanline_align, usize_bits, image, image_info, written>>
        /\ IF i # 0
           THEN /\ last' = Outcome(c, "panic", "assert_eq index")
                /\ UNCHANGED <<borrow, handles>>
           ELSE IF ~CanBorrow(borrow)
           THEN /\ last' = Outcome(c, "panic", "already borrowed")
                /\ UNCHANGED <<borrow, handles>>
           ELSE /\ borrow' = "writing"
                /\ handles' = handles + 1
                /\ last' = Outcome(c, "ok", "")

\* The byte slice a live handle dereferences to: the whole Buffer.
LockedSlice == image

\* DerefMut: the caller stores byte b at offset o of the locked slice.
write(o, b) ==
    /\ handles > 0
    /\ o \in 1..Len(LockedSlice)
    /\ image' = [image EXCEPT ![o] = b]
    /\ written' = [x \in (DOMAIN written) \cup {o} |->
                      IF x = o THEN b ELSE written[x]]
    /\ gdi' = <<>>
    /\ last' = Outcome(Call("write", 0, <<0, 0>>, "Argb8888"), "ok", "")
    /\ UNCHANGED <<scanline_align, usize_bits, image_info, borrow, handles>>

\* Mutant of drop_handle: the borrow is not released with the handle.
drop_handle_Leaks ==
    /\ handles > 0
    /\ handles' = handles - 1
    /\ borrow' = borrow
    /\ gdi' = <<>>
    /\ last' = Outcome(Call("drop_handle", 0, <<0, 0>>, "Argb8888"), "ok", "")
    /\ UNCHANGED <<scanline_align, usize_bits, image, image_info, written>>

\* Mutant of drop_handle: the buffer is zeroed when the handle is released.
drop_handle_Zeroes ==
    /\ handles > 0
    /\ handles' = handles - 1
    /\ borrow' = "unused"
    /\ image' = [o \in DOMAIN image |-> 0]
    /\ gdi' = <<>>
    /\ last' = Outcome(Call("drop_handle", 0, <<0, 0>>, "Argb8888"), "ok", "")
    /\ UNCHANGED <<scanline_align, usize_bits, image_info, written>>

\* The handle's scope ends: dropping the RefMut releases the borrow.
drop_handle ==
    /\ handles > 0
    /\ handles' = handles - 1
    /\ borrow' = "unused"
    /\ gdi' = <<>>
    /\ last' = Outcome(Call("drop_handle", 0, <<0, 0>>, "Argb8888"), "ok", "")
    /\ UNCHANGED <<scanline_align, usize_bits, image, image_info, written>>

----------------------------------------------------------------------------
(* SurfaceImpl::present_image and UniqueDC *)

NullHdc == 0

\* Mutant of UniqueDC_new: a guard is made for a null HDC too.
UniqueDC_new_NoNullCheck(hdc) == hdc

\* UniqueDC::new: no guard for a null HDC
UniqueDC_new(hdc) == IF hdc = NullHdc THEN None ELSE hdc

\* lines 110-143: the arguments of the StretchDIBits call
StretchDIBitsCall(hdc, info) ==
    [call |-> "StretchDIBits", hdc |-> hdc,
     width |-> as_i32(info.extent[1]), height |-> as_i32(info.extent[2]),
     biWidth |-> as_i32(info.stride \div 4),
     biHeight |-> as_i32(0 - as_i32(info.extent[2])),
     biBitCount |-> 32]

\* Mutant of present_image: a successful blit hands the pixels over and
\* leaves the buffer zeroed.
present_image_Consumes(i) ==
    LET c == Call("present_image", i, <<0, 0>>, "Argb8888")
        info == image_info
        Panic(msg) == last' = Outcome(c, "panic", msg) /\ image' = image
    IN  /\ written' = NoWrites
        /\ UNCHANGED <<scanline_align, usize_bits, image_info, borrow, handles>>
        /\ IF i # 0 THEN Panic("assert_eq index") /\ gdi' = <<>>
           ELSE IF ~CanBorrow(borrow)
           THEN Panic("the image is currently locked") /\ gdi' = <<>>
           ELSE IF info.format # "Argb8888"
           THEN Panic("assert_eq format") /\ gdi' = <<>>
           ELSE \E hdc \in {NullHdc, 1} :
                IF UniqueDC_new(hdc) = None
                THEN /\ Panic("GetDC failed")
                     /\ gdi' = <<[call |-> "GetDC", hdc |-> hdc]>>
                ELSE /\ last' = Outcome(c, "ok", "")
                     /\ image' = [o \in DOMAIN image |-> 0]
                     /\ gdi' = <<[call |-> "GetDC", hdc |-> hdc],
                                 StretchDIBitsCall(hdc, info),
                                 [call |-> "ReleaseDC", hdc |-> hdc]>>

\* Mutant of present_image: the stored format is not asserted.
present_image_AnyFormat(i) ==
    LET c == Call("present_image", i, <<0, 0>>, "Argb8888")
        info == image_info
        Panic(msg) == last' = Outcome(c, "panic", msg)
    IN  /\ written' = NoWrites
        /\ UNCHANGED <<scanline_align, usize_bits, image, image_info, borrow,
                       handles>>
        /\ IF i # 0 THEN Panic("assert_eq index") /\ gdi' = <<>>
           ELSE IF ~CanBorrow(borrow)
           THEN Panic("the image is currently locked") /\ gdi' = <<>>
           ELSE \E hdc \in {NullHdc, 1} :
                IF UniqueDC_new(hdc) = None
                THEN /\ Panic("GetDC failed")
                     /\ gdi' = <<[call |-> "GetDC", hdc |-> hdc]>>
                ELSE /\ last' = Outcome(c, "ok", "")
                     /\ gdi' = <<[call |-> "GetDC", hdc |-> hdc],
                                 StretchDIBitsCall(hdc, info),
                                 [call |-> "ReleaseDC", hdc |-> hdc]>>

present_image(i) ==
    LET c == Call("present_image", i, <<0, 0>>, "Argb8888")
        info == image_info
        Panic(msg) == last' = Outcome(c, "panic", msg)
    IN  /\ written' = NoWrites
        /\ UNCHANGED <<scanline_align, usize_bits, image, image_info, borrow,
                       handles>>
        /\ IF i # 0 THEN Panic("assert_eq index") /\ gdi' = <<>>
           ELSE IF ~CanBorrow(borrow)
           THEN Panic("the image is currently locked") /\ gdi' = <<>>
           ELSE IF info.format # "Argb8888"
           THEN Panic("assert_eq format") /\ gdi' = <<>>
           ELSE \E hdc \in {NullHdc, 1} :
                IF UniqueDC_new(hdc) = None
                THEN /\ Panic("GetDC failed")
                     /\ gdi' = <<[call |-> "GetDC", hdc |-> hdc]>>
                ELSE /\ last' = Outcome(c, "ok", "")
                     /\ gdi' = <<[call |-> "GetDC", hdc |-> hdc],
                                 StretchDIBitsCall(hdc, info),
                                 [call |-> "ReleaseDC", hdc |-> hdc]>>

----------------------------------------------------------------------------

Next ==
    \/ \E w \in ExtentVals, h \in ExtentVals, f \in Formats :
            update_surface(<<w, h>>, f)
    \/ \E i \in Indices : lock_image(i)
    \/ \E o \in {1, Len(image)}, b \in Bytes : write(o, b)
    \/ drop_handle
    \/ \E i \in Indices : present_image(i)

Spec == Init /\ [][Next]_vars

----------------------------------------------------------------------------
(* Helpers of the properties *)

\* The smallest multiple of align that is >= x, as a mathematical integer.
LeastMultiple(align, x) == CHOOSE s \in x..(x + align - 1) : s % align = 0

\* The stride in pixels an extent of the given width implies.
ImpliedStridePixels(width) == LeastMultiple(scanline_align, width * 4) \div 4

\* The last operation made a blit.
Blitted(calls) == \E k \in 1..Len(calls) : calls[k].call = "StretchDIBits"

\* The platform handed out a drawing context to the last operation.
GotContext(calls) == Len(calls) > 0 /\ calls[1].hdc # NullHdc

\* The buffer holds two different bytes: a caller has written into it.
Painted == \E o1, o2 \in DOMAIN image : image[o1] # image[o2]

----------------------------------------------------------------------------
(* C1 *)

\* C1: while a handle returned by lock_image(0) is alive, every lock_image(0)
\* and every present_image(0) ends in a panic, hands out no handle and makes
\* no blit; there is never more than one live handle.
C1_MutualExclusion ==
    [][/\ handles' <= 1
       /\ (handles > 0 /\ last'.op \in {"lock_image", "present_image"} /\ last'.i = 0)
            => /\ last'.result = "panic"
               /\ handles' = handles
               /\ ~Blitted(gdi')]_vars

\* A present_image(0) of a presentable image was refused because of the handle.
C1_Witness ==
    /\ handles = 1
    /\ last.op = "present_image" /\ last.i = 0 /\ last.result = "panic"
    /\ image_info.format = "Argb8888" /\ image_info.stride > 0

(* C2 *)

\* C2 as stated: right after the handle is released, lock_image(0) succeeds
\* and present_image(0) succeeds.
C2_Original ==
    [][(last.op = "drop_handle" /\ last'.op \in {"lock_image", "present_image"}
        /\ last'.i = 0) => last'.result = "ok"]_vars

\* C2 amended: right after the handle is released, lock_image(0) succeeds and
\* hands out the handle, and present_image(0) is not refused for the image
\* being locked: it succeeds exactly when the stored format is Argb8888 and
\* the platform hands out a drawing context.
C2_AfterRelease ==
    (last.after_drop /\ last.i = 0) =>
        /\ last.op = "lock_image" => (last.result = "ok" /\ handles = 1)
        /\ last.op = "present_image" =>
            /\ last.msg # "the image is currently locked"
            /\ last.result = "ok" <=>
                  (image_info.format = "Argb8888" /\ GotContext(gdi))

\* A present_image(0) right after a release succeeded.
C2_Witness ==
    /\ last.after_drop /\ last.op = "present_image" /\ last.i = 0
    /\ last.result = "ok" /\ Blitted(gdi)

(* C3 *)

\* C3: an update_surface call either returns with the new ImageInfo stored
\* and the buffer resized to stride * height, or panics with the ImageInfo,
\* the buffer size and the lock state as they were before the call.
C3_NoPartialSuccess ==
    [][last'.op = "update_surface" =>
        \/ /\ last'.result = "ok"
           /\ image_info'.extent = last'.extent
           /\ image_info'.format = last'.format
           /\ Len(image') = image_info'.stride * last'.extent[2]
        \/ /\ last'.result = "panic"
           /\ image_info' = image_info
           /\ Len(image') = Len(image)
           /\ borrow' = borrow /\ handles' = handles]_vars

\* An update_surface to another extent failed in the resize, after every
\* check had passed, on a surface that had an image.
C3_Witness ==
    /\ last.op = "update_surface" /\ last.result = "panic"
    /\ last.msg = "allocation failed"
    /\ image_info.stride > 0 /\ last.extent # image_info.extent

(* C4 *)

C5_CeilingRejected ==
    [][(last'.op = "update_surface"
        /\ ImpliedStridePixels(last'.extent[1]) > I32Max)
        => /\ last'.result = "panic"
           /\ image_info' = image_info
           /\ image' = image]_vars

\* An extent inside the c_int range was refused for its stride in pixels alone.
C5_Witness ==
    /\ last.op = "update_surface" /\ last.result = "panic"
    /\ last.extent[1] \in 1..I32Max /\ last.extent[2] \in 1..I32Max
    /\ ImpliedStridePixels(last.extent[1]) > I32Max
    /\ last.msg = "overflow: stride_pixels"
    /\ handles = 0 /\ image_info.stride > 0

(* C6 *)

\* C6: an update_surface that returns stores exactly {extent, stride, format}
\* with stride the smallest multiple of the scanline alignment >= extent[0] * 4
\* and leaves the buffer with stride * extent[1] bytes; no other step changes
\* the stored ImageInfo.
C6_Snapshot ==
    [][IF last'.op = "update_surface" /\ last'.result = "ok"
       THEN /\ image_info' =
                 [extent |-> last'.extent,
                  stride |-> LeastMultiple(scanline_align, last'.extent[1] * 4),
                  format |-> last'.format]
            /\ Len(image') = image_info'.stride * last'.extent[2]
       ELSE image_info' = image_info]_vars

\* The snapshot of an update_surface of the largest extent with scanline
\* alignment 1 (stride 4 * width, no padding) is still there after a handle
\* was taken and released.
C6_Witness ==
    /\ scanline_align = 1
    /\ image_info = [extent |-> <<I32Max, I32Max>>, stride |-> 4 * I32Max,
                     format |-> "Xrgb8888"]
    /\ Len(image) = 4 * I32Max * I32Max
    /\ last.op = "drop_handle"

(* C7 *)

\* C7: an update_surface called with the arguments of the successful
\* update_surface right before it leaves the ImageInfo and the buffer size
\* as the first call left them.
C7_Idempotent ==
    [][(last'.op = "update_surface" /\ last'.repeat)
        => /\ image_info' = image_info
           /\ Len(image') = Len(image)]_vars

\* The second of two identical update_surface calls returned.
C7_Witness ==
    /\ last.op = "update_surface" /\ last.repeat /\ last.result = "ok"
    /\ Len(image) > 4

(* C8 *)

\* C8 as stated: in every reachable state the slice of a live handle has
\* stride * extent[1] bytes.
C8_Original ==
    handles > 0 => Len(LockedSlice) = image_info.stride * image_info.extent[2]

\* C8 amended: once an update_surface has returned, the slice of a live
\* handle has stride * extent[1] bytes; before that it is the 1-byte
\* placeholder while the ImageInfo is the default one (stride 0, extent [0,0]).
C8_SliceSized ==
    handles > 0 =>
        IF image_info.extent = <<0, 0>>
        THEN Len(LockedSlice) = 1 /\ image_info.stride = 0
        ELSE Len(LockedSlice) = image_info.stride * image_info.extent[2]

\* A handle is alive on a surface with a padded multi-row image.
C8_Witness ==
    /\ handles > 0
    /\ image_info.extent[2] > 1
    /\ image_info.stride > image_info.extent[1] * 4

(* C9 *)

\* C9: the bytes written through handles since the last update_surface or
\* present_image call are what a live handle reads at those offsets.
C9_RoundTrip ==
    handles > 0 => \A o \in DOMAIN written : LockedSlice[o] = written[o]

\* A fresh handle, taken right after the release of the one that wrote.
C9_Witness ==
    /\ handles > 0
    /\ last.op = "lock_image" /\ last.result = "ok" /\ last.after_drop
    /\ \E o \in DOMAIN written : written[o] = 255

(* C10 *)

\* C10: a present_image call, returning or panicking, leaves the buffer's
\* bytes, the buffer's size and the stored ImageInfo unchanged.
C10_PresentReadsOnly ==
    [][last'.op = "present_image" => (image' = image /\ image_info' = image_info)]_vars

\* A present_image returned on a buffer a caller had painted.
C10_Witness ==
    /\ last.op = "present_image" /\ last.result = "ok"
    /\ Painted

(* C11 *)

\* C11: an update_surface whose extent has a zero component or a component
\* above the i32 maximum panics and leaves the ImageInfo and the buffer size
\* as they were.
C11_BadExtentRejected ==
    [][(last'.op = "update_surface"
        /\ \E k \in 1..2 : last'.extent[k] = 0 \/ last'.extent[k] > I32Max)
        => /\ last'.result = "panic"
           /\ image_info' = image_info
           /\ Len(image') = Len(image)]_vars

\* update_surface([u32::MAX, 1]) was refused on an unlocked surface that
\* had an image.
C11_Witness ==
    /\ last.op = "update_surface" /\ last.result = "panic"
    /\ last.extent = <<U32Max, 1>>
    /\ handles = 0 /\ image_info.stride > 0

(* C12 *)

\* C12: lock_image(i) and present_image(i) with i # 0 panic without touching
\* anything: no handle, no platform call, and the borrow flag, the buffer and
\* the ImageInfo as they were.
C12_BadIndexRejected ==
    [][(last'.op \in {"lock_image", "present_image"} /\ last'.i # 0)
        => /\ last'.result = "panic"
           /\ gdi' = <<>>
           /\ handles' = handles /\ borrow' = borrow
           /\ image' = image /\ image_info' = image_info]_vars

\* lock_image(1) was refused on a surface that was free to be locked.
C12_Witness ==
    /\ last.op = "lock_image" /\ last.i = 1 /\ last.result = "panic"
    /\ handles = 0 /\ borrow = "unused" /\ image_info.stride > 0

(* C13 *)

\* C13: in every reachable state num_images() is 1 and poll_next_image() is
\* Some(0).
C13_SingleImage ==
    /\ num_images = 1
    /\ poll_next_image = Some(0)

\* The queries are made while a handle is alive, right after an operation
\* failed.
C13_Witness ==
    /\ handles > 0 /\ last.result = "panic"
    /\ image_info.stride > 0
    /\ num_images = 1 /\ poll_next_image.some

(* C14 *)

\* The number of calls of the given name among the platform calls.
CountCalls(calls, name) == Cardinality({k \in 1..Len(calls) : calls[k].call = name})

\* The contexts the platform handed out: GetDC calls that returned non-null.
Acquired(calls) ==
    Cardinality({k \in 1..Len(calls) :
                    calls[k].call = "GetDC" /\ calls[k].hdc # NullHdc})

\* C14: after every operation, returned or panicked, as many drawing contexts
\* have been released as were handed out, and only present_image makes
\* platform calls; a present_image that is handed no context panics without
\* a blit and without a release.
C14_ContextScoped ==
    /\ Acquired(gdi) = CountCalls(gdi, "ReleaseDC")
    /\ last.op # "present_image" => gdi = <<>>
    /\ (Len(gdi) > 0 /\ gdi[1].hdc = NullHdc) =>
          /\ last.result = "panic"
          /\ ~Blitted(gdi)
          /\ CountCalls(gdi, "ReleaseDC") = 0
    /\ Blitted(gdi) =>
          /\ gdi[1].call = "GetDC" /\ gdi[1].hdc # NullHdc
          /\ gdi[2].call = "StretchDIBits" /\ gdi[2].hdc = gdi[1].hdc
          /\ gdi[3].call = "ReleaseDC" /\ gdi[3].hdc = gdi[1].hdc
          /\ Len(gdi) = 3

\* A present_image(0) of a presentable image was handed no drawing context.
C14_Witness ==
    /\ last.op = "present_image" /\ last.result = "panic"
    /\ last.msg = "GetDC failed"
    /\ gdi = <<[call |-> "GetDC", hdc |-> NullHdc]>>

(* C15 *)

\* C15: the RefCell of the buffer is borrowed exactly when a handle returned
\* by lock_image is alive, and there is at most one.
C15_LockedIffHandle ==
    /\ handles \in {0, 1}
    /\ (borrow = "writing") <=> (handles = 1)
    /\ (borrow = "unused") <=> (handles = 0)

\* An update_surface made right after the release of a handle failed in the
\* resize, while it held its own borrow, and left the surface unlocked.
C15_Witness ==
    /\ last.op = "update_surface" /\ last.result = "panic"
    /\ last.msg = "allocation failed" /\ last.after_drop
    /\ handles = 0 /\ borrow = "unused"

(* C16 *)

\* C16: an update_surface called while a handle is alive panics and leaves
\* the ImageInfo, the buffer and the handle as they were; no step taken while
\* a handle is alive changes the size of the buffer.
C16_NoResizeUnderHandle ==
    [][handles > 0 =>
        /\ Len(image') = Len(image)
        /\ last'.op = "update_surface" =>
              /\ last'.result = "panic"
              /\ image_info' = image_info
              /\ image' = image
              /\ handles' = handles /\ borrow' = borrow]_vars

\* An update_surface to another, valid extent was refused for the live
\* handle alone.
C16_Witness ==
    /\ last.op = "update_surface" /\ last.result = "panic"
    /\ last.msg = "already borrowed"
    /\ handles = 1 /\ image_info.stride > 0
    /\ last.extent # image_info.extent

(* C17 *)

\* C17: in every reachable state stride / 4 and both components of the
\* stored extent are at most the i32 maximum, and the blit of a
\* present_image gets them unchanged: the row length is stride / 4, the
\* width is extent[0], the height is extent[1] and biHeight is -extent[1].
C17_NarrowingExact ==
    /\ image_info.stride \div 4 <= I32Max
    /\ image_info.extent[1] <= I32Max
    /\ image_info.extent[2] <= I32Max
    /\ Blitted(gdi) =>
          /\ gdi[2].biWidth = image_info.stride \div 4
          /\ gdi[2].width = image_info.extent[1]
          /\ gdi[2].height = image_info.extent[2]
          /\ gdi[2].biHeight = 0 - image_info.extent[2]
          /\ gdi[2].biHeight <= 0

\* A blit of an image whose width, height and stride in pixels are all at
\* the i32 maximum.
C17_Witness ==
    /\ Blitted(gdi)
    /\ image_info.extent = <<I32Max, I32Max>>
    /\ image_info.stride \div 4 = I32Max
    /\ gdi[2].biHeight = 0 - I32Max

(* C18 *)

\* C18: an update_surface that returns stores the format it was given,
\* supported or not; a present_image(0) of a stored format other than
\* Argb8888 panics without a platform call; a blit is made only when the
\* stored format is Argb8888.
C18_FormatChecked ==
    /\ (last.op = "update_surface" /\ last.result = "ok")
          => image_info.format = last.format
    /\ (last.op = "present_image" /\ last.i = 0
        /\ image_info.format # "Argb8888")
          => (last.result = "panic" /\ gdi = <<>>)
    /\ Blitted(gdi) => image_info.format = "Argb8888"

\* A present_image(0) on an unlocked surface was refused for the format an
\* update_surface had stored.
C18_Witness ==
    /\ last.op = "present_image" /\ last.i = 0 /\ last.result = "panic"
    /\ last.msg = "assert_eq format"
    /\ image_info.format \notin supported_formats
    /\ image_info.stride > 0 /\ handles = 0

====
